---- MODULE Spec2Model ----
(***************************************************************************)
(* Model of src/services/api.js: the axios client with the request         *)
(* interceptor that attaches the access token and the response interceptor *)
(* that refreshes the token once for all concurrently failing requests.    *)
(*                                                                         *)
(* One action is one turn of the JavaScript event loop: the callback that  *)
(* the turn runs together with the promise continuations (microtasks) it   *)
(* schedules, up to the point where every flow is suspended on network I/O.*)
(***************************************************************************)
EXTENDS Integers, Sequences, FiniteSets, TLC

\* ------------------------------------------------------------------ bounds

\* Number of requests callers issue through apiClient.
NReq == 2

Req == 1..NReq

\* 0 stands for "absent" (localStorage.getItem returns null, no header).
NoToken == 0

\* Tokens are numbered. 1 is the access token (and the refresh token) a
\* login stored before any request is made; the refresh endpoint issues a
\* fresh access token on every exchange, the n-th exchange token n + 1.
LoginToken == 1
FreshToken(n) == n + LoginToken

\* What the server (or the network) answers to a request sent by apiClient:
\* 2xx, 401, a validation error, a server error, or nothing at all.
Outcomes == {"ok", "e401", "e400", "e500", "network"}

\* How the refresh exchange can fail: a 401 or 5xx answer, no answer at all,
\* or a 2xx answer without a body, on which reading data.access throws.
RefreshErrors == {"e401", "e500", "network", "typeerror"}

\* A caller may address any path, also the refresh endpoint itself.
Urls == {"api", "refresh"}

VARIABLES
    accessToken,    \* localStorage 'accessToken'
    refreshToken,   \* localStorage 'refreshToken'
    defaultAuth,    \* apiClient.defaults.headers.common['Authorization']
    isRefreshing,   \* module variable isRefreshing
    failedQueue,    \* module variable failedQueue: the requests whose {resolve, reject} it holds
    status,         \* per request: where its caller's promise stands
    retry,          \* per request: originalRequest._retry
    url,            \* per request: whether config.url ends with REFRESH_TOKEN_ENDPOINT
    auth,           \* per request: config.headers['Authorization'] as last sent
    sends,          \* per request: how many times it went to the transport
    err,            \* per request: the error its caller was rejected with
    exchangeTok,    \* per request: the refresh token its outstanding exchange carries
    exchanges,      \* history: refresh exchanges started so far
    logouts,        \* history: assignments to window.location.href
    enq,            \* history, per request: times pushed on failedQueue
    settled,        \* history, per request: times a queue entry of it was resolved or rejected
    first401,       \* history, per request: what its first intercepted 401 did
    ev,             \* history: the event-loop turn that produced this state
    handler,        \* the refresh-success continuation, when followed statement by statement
    norm            \* a failed Session Client call: the failure and what each method threw

clientVars == <<accessToken, refreshToken, defaultAuth, isRefreshing, failedQueue,
                status, retry, url, auth, sends, err, exchangeTok,
                exchanges, logouts, enq, settled, first401, ev>>

vars == <<clientVars, handler, norm>>

store == <<accessToken, refreshToken>>

\* ------------------------------------------------------------- pure helpers

\* Elements of a sequence, and occurrences of x in it.
Range(s) == {s[i] : i \in 1..Len(s)}
Count(x, s) == Cardinality({i \in 1..Len(s) : s[i] = x})

\* Request interceptor: the header the request leaves with. cfgAuth is the
\* header already on the config, dflt the client's default header, which
\* axios merges under the config's own headers before interceptors run.
Authenticate(cfgAuth, token, dflt) ==
    IF token # NoToken THEN token
    ELSE IF cfgAuth # NoToken THEN cfgAuth
    ELSE dflt

\* Faulty trigger conditions: each drops one of the three tests.
ShouldInterceptNoRetryTest(outcome, retried, u) ==
    outcome = "e401" /\ u # "refresh"

ShouldInterceptNoUrlTest(outcome, retried, u) ==
    outcome = "e401" /\ ~retried

ShouldInterceptAnyStatus(outcome, retried, u) ==
    outcome \in {"e401", "e500"} /\ ~retried /\ u # "refresh"

\* Trigger condition of the response interceptor's error handler.
ShouldIntercept(outcome, retried, u) ==
    outcome = "e401" /\ ~retried /\ u # "refresh"

\* Faulty processQueue: settles the entries and forgets to empty the queue.
processQueueKeepsQueue(queue, error, token) ==
    [ entries |-> queue,
      how     |-> IF error # "none" THEN "reject" ELSE "resolve",
      value   |-> IF error # "none" THEN NoToken ELSE token,
      queue   |-> queue ]

\* Faulty processQueue: empties the queue without settling its entries.
processQueueDropsEntries(queue, error, token) ==
    [ entries |-> << >>,
      how     |-> IF error # "none" THEN "reject" ELSE "resolve",
      value   |-> IF error # "none" THEN NoToken ELSE token,
      queue   |-> << >> ]

\* processQueue: settles every entry of the queue (reject when error is
\* given, resolve with token otherwise) and leaves the queue empty.
processQueue(queue, error, token) ==
    [ entries |-> queue,
      how     |-> IF error # "none" THEN "reject" ELSE "resolve",
      value   |-> IF error # "none" THEN NoToken ELSE token,
      queue   |-> << >> ]

\* The history record of one event-loop turn: what ran, for which request,
\* what the network answered, the token a refresh returned, and the queue
\* length and the request's _retry mark when the turn began.
Event(op, r, o, t, k, retried) ==
    [op |-> op, req |-> r, out |-> o, tok |-> t, k |-> k, retried |-> retried]

\* The first intercepted 401 of a request: what the handler did with it and
\* how many refresh exchanges had been started by the end of that turn.
First(old, what, nth) ==
    IF old.what = "none" THEN [what |-> what, nth |-> nth] ELSE old

\* ---------------------------------------------------------------- initial

ClientInit ==
    /\ accessToken \in {NoToken, LoginToken}
    /\ refreshToken \in {NoToken, LoginToken}
    /\ defaultAuth = NoToken
    /\ isRefreshing = FALSE
    /\ failedQueue = << >>
    /\ status = [r \in Req |-> "new"]
    /\ retry = [r \in Req |-> FALSE]
    /\ url = [r \in Req |-> "api"]
    /\ auth = [r \in Req |-> NoToken]
    /\ sends = [r \in Req |-> 0]
    /\ err = [r \in Req |-> "none"]
    /\ exchangeTok = [r \in Req |-> NoToken]
    /\ exchanges = 0
    /\ logouts = 0
    /\ enq = [r \in Req |-> 0]
    /\ settled = [r \in Req |-> 0]
    /\ first401 = [r \in Req |-> [what |-> "none", nth |-> 0]]
    /\ ev = Event("init", 0, "none", NoToken, 0, FALSE)

\* No refresh-success continuation is being followed.
NoHandler == [pc |-> 0, req |-> 0, tok |-> NoToken, val |-> NoToken]

\* ------------------------------------------------- failures of one call

\* HTTP statuses of error responses that reach a Session Client method.
Statuses == {400, 404, 500}

\* error.response.data. shape "absent": no body; "text": a string body;
\* "object": a JSON object whose detail and message fields are strings ("" when
\* the field is missing) and which may carry one more field (extra).
NoBody == [shape |-> "absent", detail |-> "", message |-> "", extra |-> FALSE]

TextBody == [shape |-> "text", detail |-> "", message |-> "", extra |-> FALSE]

ObjectBodies ==
    [shape : {"object"}, detail : {"", "d"}, message : {"", "m"}, extra : BOOLEAN]

Bodies == {NoBody, TextBody} \cup ObjectBodies

\* The error caught by a method: with a response, with a request but no
\* response, or neither (thrown while the request was being set up).
NoFailure == [kind |-> "none", data |-> NoBody, status |-> 0]

Failures ==
    [kind : {"response"}, data : Bodies, status : Statuses]
        \cup {[kind |-> "request", data |-> NoBody, status |-> 0],
              [kind |-> "setup", data |-> NoBody, status |-> 0]}

\* JSON.stringify of an object body, as the sequence of its pieces.
Json(data) ==
    <<"{">>
        \o (IF data.detail # "" THEN <<"detail:", data.detail>> ELSE <<>>)
        \o (IF data.message # "" THEN <<"message:", data.message>> ELSE <<>>)
        \o (IF data.extra THEN <<"errors:", "[]">> ELSE <<>>)
        \o <<"}">>

\* `API Error: ${error.response.status}`
ApiError(code) == <<"API Error: ", ToString(code)>>

\* a || b on message texts: a unless it is empty (undefined, null, '').
OrElse(a, b) == IF a # <<>> THEN a ELSE b

\* data?.detail and data?.message: the field of an object body, undefined on
\* a missing body or a string.
Field(data, value) == IF data.shape = "object" /\ value # "" THEN <<value>> ELSE <<>>

\* The Error a method throws: message, and the data and status copied from the
\* response (none on the two generic errors).
Thrown(message, data, code) == [message |-> message, data |-> data, status |-> code]

NotThrown == Thrown(<<>>, NoBody, 0)

NetworkError == Thrown(<<"Network Error: Could not connect to server.">>, NoBody, 0)

SetupError == Thrown(<<"Request setup error.">>, NoBody, 0)

\* The catch block of logSession.
NormalizeLogSession(f) ==
    IF f.kind = "response"
    THEN Thrown(OrElse(Field(f.data, f.data.detail),
                       OrElse(IF f.data.shape = "object" THEN Json(f.data) ELSE <<>>,
                              ApiError(f.status))),
                f.data, f.status)
    ELSE IF f.kind = "request" THEN NetworkError ELSE SetupError

\* The catch block of getLoggedSessions.
NormalizeGetLoggedSessions(f) ==
    IF f.kind = "response"
    THEN Thrown(OrElse(Field(f.data, f.data.detail),
                       OrElse(Field(f.data, f.data.message), ApiError(f.status))),
                f.data, f.status)
    ELSE IF f.kind = "request" THEN NetworkError ELSE SetupError

\* No Session Client call has failed.
NoNorm == [failure |-> NoFailure, log |-> NotThrown, get |-> NotThrown]

Init ==
    /\ ClientInit
    /\ handler = NoHandler
    /\ norm = NoNorm

\* ---------------------------------------------------------------- actions

\* A caller issues request r to path u: apiClient.get / apiClient.post. The
\* request interceptor attaches the stored access token and the request goes
\* to the transport.
Send(r, u) ==
    /\ status[r] = "new"
    /\ status' = [status EXCEPT ![r] = "inflight"]
    /\ url' = [url EXCEPT ![r] = u]
    /\ auth' = [auth EXCEPT ![r] = Authenticate(NoToken, accessToken, defaultAuth)]
    /\ sends' = [sends EXCEPT ![r] = 1]
    /\ ev' = Event("send", r, "none", NoToken, 0, FALSE)
    /\ UNCHANGED <<accessToken, refreshToken, defaultAuth, isRefreshing, failedQueue,
                   retry, err, exchangeTok, exchanges, logouts, enq, settled, first401>>

\* The transport answers request r with a 2xx response: the response
\* interceptor returns it and the caller's promise resolves.
RespondOk(r) ==
    /\ status[r] = "inflight"
    /\ status' = [status EXCEPT ![r] = "resolved"]
    /\ ev' = Event("response", r, "ok", NoToken, Len(failedQueue), retry[r])
    /\ UNCHANGED <<accessToken, refreshToken, defaultAuth, isRefreshing, failedQueue,
                   retry, url, auth, sends, err, exchangeTok, exchanges, logouts,
                   enq, settled, first401>>

\* Faulty pass-through: any error that reaches the caller also logs out.
PassThroughForcesLogout(r, o) ==
    /\ status' = [status EXCEPT ![r] = "rejected"]
    /\ err' = [err EXCEPT ![r] = o]
    /\ accessToken' = NoToken
    /\ refreshToken' = NoToken
    /\ logouts' = logouts + 1
    /\ UNCHANGED <<defaultAuth, isRefreshing, failedQueue,
                   retry, url, auth, sends, exchangeTok, exchanges,
                   enq, settled, first401>>

\* Error handler, last line: the error goes to the caller as it came.
PassThrough(r, o) ==
    /\ status' = [status EXCEPT ![r] = "rejected"]
    /\ err' = [err EXCEPT ![r] = o]
    /\ UNCHANGED <<accessToken, refreshToken, defaultAuth, isRefreshing, failedQueue,
                   retry, url, auth, sends, exchangeTok, exchanges, logouts,
                   enq, settled, first401>>

\* Error handler while a refresh is in progress: the caller's promise is
\* parked on failedQueue.
Enqueue(r) ==
    /\ failedQueue' = Append(failedQueue, r)
    /\ status' = [status EXCEPT ![r] = "queued"]
    /\ enq' = [enq EXCEPT ![r] = @ + 1]
    /\ first401' = [first401 EXCEPT ![r] = First(@, "queued", exchanges)]
    /\ UNCHANGED <<accessToken, refreshToken, defaultAuth, isRefreshing,
                   retry, url, auth, sends, err, exchangeTok, exchanges, logouts, settled>>

\* Faulty missing-token path: the flag raised at the start of the attempt
\* is not lowered before the handler returns.
NoRefreshTokenFlagLeftUp(r, o) ==
    /\ retry' = [retry EXCEPT ![r] = TRUE]
    /\ isRefreshing' = TRUE
    /\ accessToken' = NoToken
    /\ refreshToken' = NoToken
    /\ logouts' = logouts + 1
    /\ status' = [status EXCEPT ![r] = "rejected"]
    /\ err' = [err EXCEPT ![r] = o]
    /\ first401' = [first401 EXCEPT ![r] = First(@, "notoken", exchanges)]
    /\ UNCHANGED <<defaultAuth, failedQueue, url, auth, sends, exchangeTok,
                   exchanges, enq, settled>>

\* Faulty missing-token path: the access token is left in the store.
NoRefreshTokenKeepsAccessToken(r, o) ==
    /\ retry' = [retry EXCEPT ![r] = TRUE]
    /\ isRefreshing' = FALSE
    /\ accessToken' = accessToken
    /\ refreshToken' = NoToken
    /\ logouts' = logouts + 1
    /\ status' = [status EXCEPT ![r] = "rejected"]
    /\ err' = [err EXCEPT ![r] = o]
    /\ first401' = [first401 EXCEPT ![r] = First(@, "notoken", exchanges)]
    /\ UNCHANGED <<defaultAuth, failedQueue, url, auth, sends, exchangeTok,
                   exchanges, enq, settled>>

\* Error handler with no refresh token in the store: forced logout, the
\* caller is rejected with its own error. isRefreshing goes true and back to
\* false within the turn.
NoRefreshToken(r, o) ==
    /\ retry' = [retry EXCEPT ![r] = TRUE]
    /\ isRefreshing' = FALSE
    /\ accessToken' = NoToken
    /\ refreshToken' = NoToken
    /\ logouts' = logouts + 1
    /\ status' = [status EXCEPT ![r] = "rejected"]
    /\ err' = [err EXCEPT ![r] = o]
    /\ first401' = [first401 EXCEPT ![r] = First(@, "notoken", exchanges)]
    /\ UNCHANGED <<defaultAuth, failedQueue, url, auth, sends, exchangeTok,
                   exchanges, enq, settled>>

\* Faulty start of a refresh: the flag is not raised before the handler
\* suspends on the exchange.
StartRefreshFlagNotRaised(r) ==
    /\ retry' = [retry EXCEPT ![r] = TRUE]
    /\ isRefreshing' = isRefreshing
    /\ exchangeTok' = [exchangeTok EXCEPT ![r] = refreshToken]
    /\ exchanges' = exchanges + 1
    /\ status' = [status EXCEPT ![r] = "refreshing"]
    /\ first401' = [first401 EXCEPT ![r] = First(@, "trigger", exchanges + 1)]
    /\ UNCHANGED <<accessToken, refreshToken, defaultAuth, failedQueue, url, auth,
                   sends, err, logouts, enq, settled>>

\* Error handler starting a refresh: marks the request, raises the flag and
\* posts the refresh token with the plain axios instance; the handler is
\* suspended on that call.
StartRefresh(r) ==
    /\ retry' = [retry EXCEPT ![r] = TRUE]
    /\ isRefreshing' = TRUE
    /\ exchangeTok' = [exchangeTok EXCEPT ![r] = refreshToken]
    /\ exchanges' = exchanges + 1
    /\ status' = [status EXCEPT ![r] = "refreshing"]
    /\ first401' = [first401 EXCEPT ![r] = First(@, "trigger", exchanges + 1)]
    /\ UNCHANGED <<accessToken, refreshToken, defaultAuth, failedQueue, url, auth,
                   sends, err, logouts, enq, settled>>

\* The transport answers request r with an error (a status, or none at all):
\* the response interceptor's error handler runs.
RespondError(r, o) ==
    /\ status[r] = "inflight"
    /\ o # "ok"
    /\ ev' = Event("response", r, o, NoToken, Len(failedQueue), retry[r])
    /\ IF ShouldIntercept(o, retry[r], url[r])
       THEN IF isRefreshing
            THEN Enqueue(r)
            ELSE IF refreshToken = NoToken
                 THEN NoRefreshToken(r, o)
                 ELSE StartRefresh(r)
       ELSE PassThrough(r, o)

\* Faulty refresh success: the new token is set as default header but not
\* written to the store.
StoreNewTokenNotPersisted(tok) ==
    /\ accessToken' = accessToken
    /\ defaultAuth' = tok

\* Refresh success, the two writes of the new access token: the store and
\* the client's default header.
StoreNewToken(tok) ==
    /\ accessToken' = tok
    /\ defaultAuth' = tok

\* Faulty refresh failure: the redirect sits inside the loop that rejects
\* the waiting requests as well.
ForceLogoutPerWaiter ==
    /\ accessToken' = NoToken
    /\ refreshToken' = NoToken
    /\ logouts' = logouts + 1 + Len(failedQueue)

\* Refresh failure, catch block: both tokens leave the store and the page is
\* sent to /login, once.
ForceLogout ==
    /\ accessToken' = NoToken
    /\ refreshToken' = NoToken
    /\ logouts' = logouts + 1

\* What the settling of the queue and of the triggering request r does to
\* every request. A resolved entry's continuation writes the token it was
\* resolved with into its config and calls apiClient again; a rejected
\* entry's caller gets the refresh error. replayTrigger tells whether the
\* handler replays r, with tok written into its config (success), or rejects
\* it with the refresh error.
SettleAll(r, pq, replayTrigger, tok) ==
    LET inQueue == Range(pq.entries)
        replayed == (IF pq.how = "resolve" THEN inQueue ELSE {})
                        \cup (IF replayTrigger THEN {r} ELSE {})
        rejected == (IF pq.how = "reject" THEN inQueue ELSE {})
                        \cup (IF replayTrigger THEN {} ELSE {r})
    IN
    /\ failedQueue' = pq.queue
    /\ settled' = [q \in Req |-> settled[q] + Count(q, pq.entries)]
    /\ status' = [q \in Req |->
                    IF q \in replayed THEN "inflight"
                    ELSE IF q \in rejected THEN "rejected"
                    ELSE status[q]]
    /\ sends' = [q \in Req |-> IF q \in replayed THEN sends[q] + 1 ELSE sends[q]]
    /\ err' = [q \in Req |-> IF q \in rejected THEN "refreshError" ELSE err[q]]
    /\ auth' = [q \in Req |->
                  IF q \in replayed
                  THEN Authenticate(IF q = r THEN tok ELSE pq.value,
                                    accessToken', defaultAuth')
                  ELSE auth[q]]

\* Faulty refresh success: the new token is written over the refresh token
\* as well.
RefreshSucceedsOverwritesRefreshToken(r, tok) ==
    /\ status[r] = "refreshing"
    /\ StoreNewToken(tok)
    /\ refreshToken' = tok
    /\ SettleAll(r, processQueue(failedQueue, "none", tok), TRUE, tok)
    /\ exchangeTok' = [exchangeTok EXCEPT ![r] = NoToken]
    /\ isRefreshing' = FALSE
    /\ ev' = Event("refresh_ok", r, "ok", tok, Len(failedQueue), retry[r])
    /\ UNCHANGED <<retry, url, exchanges, logouts, enq, first401>>

\* The refresh exchange of request r's handler answers 2xx with access token
\* tok. The handler stores it, writes it into r's config, resolves the queue
\* and replays r; the finally block lowers the flag. The queued continuations
\* then replay their requests, each through the request interceptor again.
RefreshSucceeds(r, tok) ==
    /\ status[r] = "refreshing"
    /\ StoreNewToken(tok)
    /\ SettleAll(r, processQueue(failedQueue, "none", tok), TRUE, tok)
    /\ exchangeTok' = [exchangeTok EXCEPT ![r] = NoToken]
    /\ isRefreshing' = FALSE
    /\ ev' = Event("refresh_ok", r, "ok", tok, Len(failedQueue), retry[r])
    /\ UNCHANGED <<refreshToken, retry, url, exchanges, logouts, enq, first401>>

\* Faulty refresh failure: no finally block, the flag stays up.
RefreshFailsFlagLeftUp(r, e) ==
    /\ status[r] = "refreshing"
    /\ ForceLogout
    /\ UNCHANGED <<defaultAuth, retry, url, exchanges, enq, first401>>
    /\ SettleAll(r, processQueue(failedQueue, e, NoToken), FALSE, NoToken)
    /\ exchangeTok' = [exchangeTok EXCEPT ![r] = NoToken]
    /\ isRefreshing' = isRefreshing
    /\ ev' = Event("refresh_fail", r, e, NoToken, Len(failedQueue), retry[r])

\* The refresh exchange of request r's handler fails with e: the catch block
\* rejects the queue, clears the store, redirects to the login page and
\* rejects r's caller; the finally block lowers the flag.
RefreshFails(r, e) ==
    /\ status[r] = "refreshing"
    /\ ForceLogout
    /\ UNCHANGED <<defaultAuth, retry, url, exchanges, enq, first401>>
    /\ SettleAll(r, processQueue(failedQueue, e, NoToken), FALSE, NoToken)
    /\ exchangeTok' = [exchangeTok EXCEPT ![r] = NoToken]
    /\ isRefreshing' = FALSE
    /\ ev' = Event("refresh_fail", r, e, NoToken, Len(failedQueue), retry[r])

\* Every turn runs to completion: the refresh-success continuation is one
\* turn, and the Session Client's error mapping touches none of this state.
Next ==
    \/ \E r \in Req, u \in Urls : Send(r, u) /\ UNCHANGED <<handler, norm>>
    \/ \E r \in Req : RespondOk(r) /\ UNCHANGED <<handler, norm>>
    \/ \E r \in Req, o \in Outcomes : RespondError(r, o) /\ UNCHANGED <<handler, norm>>
    \/ \E r \in Req : RefreshSucceeds(r, FreshToken(exchanges)) /\ UNCHANGED <<handler, norm>>
    \/ \E r \in Req, e \in RefreshErrors : RefreshFails(r, e) /\ UNCHANGED <<handler, norm>>

Spec == Init /\ [][Next]_vars

\* The transport answers every request in flight and every refresh exchange
\* sooner or later.
Answered(r) ==
    /\ \/ RespondOk(r)
       \/ \E o \in Outcomes : RespondError(r, o)
       \/ RefreshSucceeds(r, FreshToken(exchanges))
       \/ \E e \in RefreshErrors : RefreshFails(r, e)
    /\ UNCHANGED <<handler, norm>>

LiveSpec == Init /\ [][Next]_vars /\ \A r \in Req : WF_vars(Answered(r))

\* ------------------------------------------- a client that keeps being used

\* Over the client's lifetime callers issue request after request. The caps
\* keep the histories finite: refresh exchanges started, login redirects.
MaxExchanges == 2

\* A caller whose request has settled makes a new request: the slot gets a
\* fresh config (no _retry mark, no header) and fresh histories.
Reissue(r) ==
    /\ status[r] \in {"resolved", "rejected"}
    /\ status' = [status EXCEPT ![r] = "new"]
    /\ retry' = [retry EXCEPT ![r] = FALSE]
    /\ url' = [url EXCEPT ![r] = "api"]
    /\ auth' = [auth EXCEPT ![r] = NoToken]
    /\ sends' = [sends EXCEPT ![r] = 0]
    /\ err' = [err EXCEPT ![r] = "none"]
    /\ enq' = [enq EXCEPT ![r] = 0]
    /\ settled' = [settled EXCEPT ![r] = 0]
    /\ first401' = [first401 EXCEPT ![r] = [what |-> "none", nth |-> 0]]
    /\ ev' = Event("reissue", r, "none", NoToken, 0, FALSE)
    /\ UNCHANGED <<accessToken, refreshToken, defaultAuth, isRefreshing, failedQueue,
                   exchangeTok, exchanges, logouts>>

LongNext ==
    \/ /\ Next
       /\ exchanges' <= MaxExchanges
       /\ logouts' <= MaxExchanges
    \/ \E r \in Req : Reissue(r) /\ UNCHANGED <<handler, norm>>

LongSpec == Init /\ [][LongNext]_vars

\* ----------------------------------------- the methods' error normalization

\* One failure, met by a logSession call and by a getLoggedSessions call.
NormInit ==
    /\ ClientInit
    /\ handler = NoHandler
    /\ norm \in [failure : Failures, log : {NotThrown}, get : {NotThrown}]

LogSessionFails ==
    /\ norm.log = NotThrown
    /\ norm' = [norm EXCEPT !.log = NormalizeLogSession(norm.failure)]
    /\ UNCHANGED <<clientVars, handler>>

GetLoggedSessionsFails ==
    /\ norm.get = NotThrown
    /\ norm' = [norm EXCEPT !.get = NormalizeGetLoggedSessions(norm.failure)]
    /\ UNCHANGED <<clientVars, handler>>

NormNext ==
    \/ LogSessionFails
    \/ GetLoggedSessionsFails

NormSpec == NormInit /\ [][NormNext]_vars

\* ------------------------------ the refresh-success continuation, by statement

\* Faulty order: the queue is resolved before the new token is stored.
SuccessStepsDrainFirst == <<"drain", "store", "replay", "lower">>

\* The statements of the success path in program order: store the token and
\* set the default and the trigger's header; processQueue(null, token);
\* return apiClient(originalRequest); finally isRefreshing = false.
SuccessSteps == <<"store", "drain", "replay", "lower">>

\* No continuation is running: a new event-loop turn can start.
Idle == handler.pc = 0

\* The refresh exchange of request r's handler answers 2xx: the handler
\* resumes after the await with the new access token in hand.
HandlerBegin(r) ==
    /\ Idle
    /\ status[r] = "refreshing"
    /\ handler' = [pc |-> 1, req |-> r, tok |-> FreshToken(exchanges), val |-> NoToken]
    /\ UNCHANGED <<clientVars, norm>>

\* The handler executes its next statement. Resolving a queued promise and
\* calling apiClient only schedule the replays: the continuations and the
\* request interceptor run once the handler has returned.
HandlerStep ==
    LET step == SuccessSteps[handler.pc]
        r == handler.req
        pq == processQueue(failedQueue, "none", handler.tok)
    IN
    /\ handler.pc \in 1..Len(SuccessSteps)
    /\ IF step = "store"
       THEN /\ StoreNewToken(handler.tok)
            /\ auth' = [auth EXCEPT ![r] = handler.tok]
            /\ handler' = [handler EXCEPT !.pc = @ + 1]
            /\ UNCHANGED <<isRefreshing, failedQueue, status, settled>>
       ELSE IF step = "drain"
       THEN /\ failedQueue' = pq.queue
            /\ settled' = [q \in Req |-> settled[q] + Count(q, pq.entries)]
            /\ status' = [q \in Req |->
                            IF q \in Range(pq.entries) THEN "resolving" ELSE status[q]]
            /\ handler' = [handler EXCEPT !.pc = @ + 1, !.val = pq.value]
            /\ UNCHANGED <<accessToken, defaultAuth, auth, isRefreshing>>
       ELSE IF step = "replay"
       THEN /\ status' = [status EXCEPT ![r] = "replaying"]
            /\ handler' = [handler EXCEPT !.pc = @ + 1]
            /\ UNCHANGED <<accessToken, defaultAuth, auth, isRefreshing, failedQueue,
                           settled>>
       ELSE /\ isRefreshing' = FALSE
            /\ handler' = [handler EXCEPT !.pc = @ + 1]
            /\ UNCHANGED <<accessToken, defaultAuth, auth, failedQueue, status, settled>>
    /\ UNCHANGED <<refreshToken, retry, url, sends, err, exchangeTok, exchanges,
                   logouts, enq, first401, ev, norm>>

\* The handler has returned; the scheduled replays run before the turn ends.
\* Each queued continuation writes the token it was resolved with into its
\* config, and every replay passes the request interceptor.
HandlerEnd ==
    LET r == handler.req
        resolved == {q \in Req : status[q] = "resolving"}
        replayed == {q \in Req : status[q] \in {"resolving", "replaying"}}
    IN
    /\ handler.pc = Len(SuccessSteps) + 1
    /\ status' = [q \in Req |-> IF q \in replayed THEN "inflight" ELSE status[q]]
    /\ sends' = [q \in Req |-> IF q \in replayed THEN sends[q] + 1 ELSE sends[q]]
    /\ auth' = [q \in Req |->
                  IF q \in replayed
                  THEN Authenticate(IF q \in resolved THEN handler.val ELSE auth[q],
                                    accessToken, defaultAuth)
                  ELSE auth[q]]
    /\ exchangeTok' = [exchangeTok EXCEPT ![r] = NoToken]
    /\ ev' = Event("refresh_ok", r, "ok", handler.tok, Cardinality(resolved), retry[r])
    /\ handler' = NoHandler
    /\ UNCHANGED <<accessToken, refreshToken, defaultAuth, isRefreshing, failedQueue,
                   retry, url, err, exchanges, logouts, enq, settled, first401, norm>>

\* Turns do not interleave: every other event waits until the handler and
\* its scheduled replays are done.
StepNext ==
    \/ \E r \in Req, u \in Urls : Idle /\ Send(r, u) /\ UNCHANGED <<handler, norm>>
    \/ \E r \in Req : Idle /\ RespondOk(r) /\ UNCHANGED <<handler, norm>>
    \/ \E r \in Req, o \in Outcomes :
          Idle /\ RespondError(r, o) /\ UNCHANGED <<handler, norm>>
    \/ \E r \in Req, e \in RefreshErrors :
          Idle /\ RefreshFails(r, e) /\ UNCHANGED <<handler, norm>>
    \/ \E r \in Req : HandlerBegin(r)
    \/ HandlerStep
    \/ HandlerEnd

StepSpec == Init /\ [][StepNext]_vars

\* ----------------------------------------------------------------- claims

\* Requests whose handler is suspended on a refresh exchange.
Outstanding == {r \in Req : status[r] = "refreshing"}

Settled(r) == status[r] \in {"resolved", "rejected"}

\* The turn just taken is the error handler for request r, answered with o.
Handled(r, o) == ev'.op = "response" /\ ev'.req = r /\ ev'.out = o

C1_Step ==
    /\ \A r \in Req :
         (Handled(r, "e401") /\ isRefreshing /\ ~retry[r] /\ url[r] = "api")
            => /\ failedQueue' = Append(failedQueue, r)
               /\ exchanges' = exchanges
               /\ Outstanding' = Outstanding
    /\ exchanges' # exchanges
         => /\ Outstanding = {}
            /\ ~isRefreshing
            /\ exchanges' = exchanges + 1
            /\ Cardinality(Outstanding') = 1

\* C1: at most one refresh exchange is outstanding in every reachable state,
\* and the flag is up exactly while one is; a 401 handled while the flag is
\* up is appended to the queue and starts no exchange; an exchange is only
\* started by a handler that found the flag down and no exchange outstanding.
C1_SingleFlight ==
    /\ [](Cardinality(Outstanding) <= 1 /\ (isRefreshing <=> Outstanding # {}))
    /\ [][C1_Step]_vars

C1_Witness ==
    \E a, b \in Req :
        /\ status[a] = "refreshing" /\ status[b] = "queued"
        /\ ev.op = "response" /\ ev.req = b /\ ev.out = "e401"
        /\ exchanges = 1

\* Every request was sent, and its first 401 either started the first
\* refresh exchange or was queued behind that exchange.
C2_Scenario ==
    /\ \E r \in Req : first401[r].what = "trigger"
    /\ \A r \in Req :
         /\ first401[r].what \in {"trigger", "queued"}
         /\ first401[r].nth = 1

\* C2: when N requests fail with 401 from IDLE, the first starting the
\* refresh and the others failing while it is outstanding, exactly one
\* refresh exchange has been performed by the time all N have settled.
C2_ExactlyOneExchange ==
    (C2_Scenario /\ \A r \in Req : Settled(r)) => exchanges = 1

\* C3: every request whose 401 was intercepted (it started a refresh, was
\* queued behind one, or found no refresh token) is eventually resolved or
\* rejected, given that every request and exchange is eventually answered.
C3_EventuallySettled ==
    \A r \in Req : (first401[r].what # "none") ~> Settled(r)

C3_Witness ==
    \E r \in Req : first401[r].what = "queued" /\ Settled(r) /\ settled[r] >= 1

\* C4: every request is re-sent at most once over its lifetime, so it goes
\* to the transport at most twice.
C4_AtMostOneReplay ==
    \A r \in Req : sends[r] <= 2

C5_Step ==
    \A r \in Req :
        (Handled(r, "e401") /\ retry[r])
            => /\ status'[r] = "rejected"
               /\ err'[r] = "e401"
               /\ UNCHANGED <<exchanges, failedQueue, isRefreshing, store, sends,
                              logouts, Outstanding>>

\* C5: a 401 on a request that already carries the _retry mark is not
\* intercepted: the caller is rejected with that 401, no exchange starts,
\* nothing is queued or re-sent, flag and store stay as they are.
C5_RetriedNotIntercepted == [][C5_Step]_vars

C5_Witness ==
    /\ ev.op = "response" /\ ev.out = "e401" /\ ev.retried
    /\ status[ev.req] = "rejected" /\ err[ev.req] = "e401"
    /\ sends[ev.req] = 2

C6_Step ==
    /\ ev'.op = "refresh_fail"
         => /\ exchanges' = exchanges
            /\ failedQueue' = << >>
            /\ Outstanding' = {}
    /\ \A r \in Req :
         (ev'.op = "response" /\ ev'.req = r /\ ev'.out # "ok" /\ url[r] = "refresh")
            => /\ status'[r] = "rejected"
               /\ err'[r] = ev'.out
               /\ UNCHANGED <<exchanges, failedQueue, isRefreshing, store, sends,
                              logouts, Outstanding>>

\* C6: a failed refresh exchange starts no further exchange and is not
\* queued, whatever it failed with; and a failure of a request sent through
\* the client to the refresh endpoint is outside the trigger condition: it is
\* rejected as it came, with no exchange started and nothing queued.
C6_RefreshFailureNotIntercepted == [][C6_Step]_vars

C6_Witness ==
    /\ ev.op = "response" /\ ev.out = "e401" /\ url[ev.req] = "refresh"
    /\ ~ev.retried
    /\ status[ev.req] = "rejected" /\ err[ev.req] = "e401"
    /\ logouts = 1 /\ exchanges = 1

C7_Step ==
    /\ ev'.op = "refresh_ok"
         => /\ accessToken' = ev'.tok
            /\ ev'.tok # accessToken
            /\ \A q \in Range(failedQueue) \cup {ev'.req} :
                 /\ status'[q] = "inflight"
                 /\ sends'[q] = sends[q] + 1
                 /\ auth'[q] = ev'.tok
    /\ (ev'.op = "send" /\ accessToken # NoToken)
         => auth'[ev'.req] = accessToken

\* C7: a successful refresh stores the new access token, the replay of the
\* triggering request and of every queued request leaves with that token and
\* not the old one, and a request made later leaves with the stored token.
C7_NewTokenUsed == [][C7_Step]_vars

C7_Witness ==
    /\ ev.op = "refresh_ok" /\ ev.k = 1
    /\ accessToken = ev.tok
    /\ \A r \in Req : status[r] = "inflight" /\ sends[r] = 2 /\ auth[r] = ev.tok

C8_Step ==
    ev'.op = "refresh_fail"
        => /\ accessToken' = NoToken
           /\ refreshToken' = NoToken
           /\ logouts' = logouts + 1

\* C8: a failed refresh exchange clears both tokens from the store and
\* redirects to the login page exactly once, however many requests wait.
C8_LogoutOnce == [][C8_Step]_vars

C8_Witness ==
    /\ ev.op = "refresh_fail" /\ ev.k = NReq - 1
    /\ accessToken = NoToken /\ refreshToken = NoToken
    /\ logouts = 1
    /\ \A r \in Req : status[r] = "rejected"

C9_Step ==
    \A r \in Req, o \in Outcomes \ {"ok", "e401"} :
        Handled(r, o)
            => /\ status'[r] = "rejected"
               /\ err'[r] = o
               /\ UNCHANGED <<exchanges, failedQueue, isRefreshing, store, defaultAuth,
                              sends, auth, retry, logouts, Outstanding>>

\* C9: a failure that is not a 401 response (a 4xx, a 5xx, no response)
\* rejects the caller with that same error and changes nothing else: no
\* exchange, no queueing, no replay, flag, queue and tokens as before.
C9_OtherErrorsPassThrough == [][C9_Step]_vars

C9_Witness ==
    /\ ev.op = "response" /\ ev.out = "e500" /\ ~ev.retried
    /\ url[ev.req] = "api"
    /\ isRefreshing
    /\ status[ev.req] = "rejected" /\ err[ev.req] = "e500"

\* C10: the queue is non-empty only while the flag is up; right after a
\* refresh attempt concludes the queue is empty; and every entry ever pushed
\* is either still in the queue or has been settled exactly once.
C10_QueueDrainedOnce ==
    /\ failedQueue # << >> => isRefreshing
    /\ ev.op \in {"refresh_ok", "refresh_fail"} => failedQueue = << >>
    /\ \A r \in Req : enq[r] = settled[r] + Count(r, failedQueue)
    /\ \A r \in Req : Count(r, failedQueue) <= 1

C10_Witness ==
    /\ ev.op = "refresh_ok" /\ ev.k = NReq - 1
    /\ failedQueue = << >>
    /\ \E r \in Req : enq[r] = 1 /\ settled[r] = 1

\* The turn just taken is the error handler for request r taking the
\* missing-refresh-token path: an interceptable 401, no refresh in progress,
\* no refresh token in the store.
TookNoTokenPath(r) ==
    /\ Handled(r, "e401") /\ ~retry[r] /\ url[r] = "api"
    /\ ~isRefreshing
    /\ refreshToken = NoToken

\* The state was produced by the missing-refresh-token path.
AfterNoTokenPath ==
    /\ ev.op = "response" /\ ev.out = "e401" /\ ~ev.retried
    /\ url[ev.req] = "api"
    /\ first401[ev.req].what = "notoken"
    /\ status[ev.req] = "rejected"

\* C11: once a refresh attempt has concluded (exchange success, exchange
\* failure, a 2xx answer whose token cannot be read, missing refresh token)
\* the flag is down; the flag is never up without an exchange outstanding,
\* so a later 401 is not queued behind nothing.
C11_IdleAfterAttempt ==
    /\ ev.op \in {"refresh_ok", "refresh_fail"} => ~isRefreshing
    /\ AfterNoTokenPath => ~isRefreshing
    /\ \A r \in Req : status[r] = "queued" => Outstanding # {}
    /\ Outstanding = {} => ~isRefreshing

C11_Witness ==
    /\ ev.op = "refresh_fail" /\ ev.out = "typeerror" /\ ev.k = NReq - 1
    /\ ~isRefreshing
    /\ Outstanding = {}

C12_Step ==
    \A r \in Req :
        TookNoTokenPath(r)
            => /\ exchanges' = exchanges
               /\ Outstanding' = {}
               /\ accessToken' = NoToken
               /\ refreshToken' = NoToken
               /\ logouts' = logouts + 1
               /\ status'[r] = "rejected"
               /\ ~isRefreshing'
               /\ UNCHANGED <<sends, failedQueue>>

\* C12: a 401 that triggers in IDLE with no refresh token stored performs no
\* exchange; in that same turn both tokens are cleared, the page is sent to
\* login once, the request is rejected and the flag is down.
C12_NoTokenNoExchange == [][C12_Step]_vars

C12_Witness ==
    /\ AfterNoTokenPath
    /\ auth[ev.req] = LoginToken
    /\ accessToken = NoToken /\ refreshToken = NoToken
    /\ logouts = 1 /\ exchanges = 0 /\ ~isRefreshing

C15_Step ==
    /\ ev'.op = "refresh_fail"
         => \A q \in Range(failedQueue) \cup {ev'.req} :
              /\ status'[q] = "rejected"
              /\ err'[q] = "refreshError"
              /\ sends'[q] = sends[q]
    /\ \A r \in Req :
         TookNoTokenPath(r)
            => /\ status'[r] = "rejected"
               /\ err'[r] = "refreshError"
               /\ sends'[r] = sends[r]

\* C15: when refresh is unrecoverable, by a failed exchange or by a missing
\* refresh token, the triggering request and every queued request are
\* rejected with the refresh error, not with their own 401, and none of them
\* is replayed.
C15_RejectedWithRefreshError == [][C15_Step]_vars

C17_Step ==
    \A r \in Req :
        TookNoTokenPath(r)
            => /\ failedQueue = << >>
               /\ failedQueue' = << >>
               /\ ~isRefreshing'
               /\ \A q \in Req : status'[q] # "queued"

\* C17: whenever the missing-refresh-token path is taken the queue is empty
\* before and after it, the flag is down again when the turn ends, and no
\* request is left waiting in the queue behind it.
C17_NoTokenPathQueueEmpty == [][C17_Step]_vars

C17_Witness ==
    /\ AfterNoTokenPath
    /\ failedQueue = << >> /\ ~isRefreshing
    /\ \E q \in Req : q # ev.req /\ status[q] = "inflight"

\* The turn just taken removed a token from the store or redirected to the
\* login page.
LoggedOut ==
    \/ logouts' # logouts
    \/ accessToken # NoToken /\ accessToken' = NoToken
    \/ refreshToken # NoToken /\ refreshToken' = NoToken

C18_Step ==
    LoggedOut
        => \/ ev'.op = "refresh_fail"
           \/ \E r \in Req : TookNoTokenPath(r)

\* C18: tokens are removed and the login redirect happens only in a turn in
\* which a refresh attempt proves unrecoverable (failed exchange, missing
\* refresh token); a failing replay after a successful refresh and any
\* non-401 error leave the tokens and the page alone.
C18_LogoutOnlyWhenUnrecoverable == [][C18_Step]_vars

C18_Witness ==
    /\ ev.op = "response" /\ ev.out = "e401" /\ ev.retried
    /\ status[ev.req] = "rejected" /\ sends[ev.req] = 2
    /\ accessToken = FreshToken(1) /\ refreshToken = LoginToken
    /\ logouts = 0

C19_Step ==
    ev'.op = "refresh_ok"
        => /\ refreshToken' = refreshToken
           /\ refreshToken' = exchangeTok[ev'.req]
           /\ refreshToken' # NoToken

\* C19: a successful exchange leaves the stored refresh token as it was (it
\* is the token the exchange carried), and every exchange outstanding
\* carries the stored refresh token, so a later exchange sends the same one.
C19_RefreshTokenKept ==
    /\ [][C19_Step]_vars
    /\ [](\A r \in Outstanding : exchangeTok[r] = refreshToken /\ refreshToken = LoginToken)

C19_Witness ==
    /\ exchanges = 2
    /\ accessToken = FreshToken(1)
    /\ \E r \in Req : status[r] = "refreshing" /\ exchangeTok[r] = LoginToken

C16_Step ==
    /\ ev'.op = "send" => auth'[ev'.req] = accessToken
    /\ ev'.op = "refresh_ok"
         => \A q \in Range(failedQueue) \cup {ev'.req} : auth'[q] = accessToken'

\* C16: every request leaves with Authorization: Bearer t exactly when the
\* store holds access token t at that moment, and with no Authorization
\* header when the store holds none, also after a refresh followed by a
\* forced logout.
C16_HeaderFollowsStore == [][C16_Step]_vars

\* The mapping as stated: detail if present, else the JSON rendering of the
\* body (an object body; a missing or text body has no fields to render and
\* gets the status message), else 'API Error: <status>'.
C13_Stated(f) ==
    IF f.kind = "response"
    THEN Thrown(IF f.data.shape = "object" /\ f.data.detail # "" THEN <<f.data.detail>>
                ELSE IF f.data.shape = "object" THEN Json(f.data)
                ELSE ApiError(f.status),
                f.data, f.status)
    ELSE IF f.kind = "request" THEN NetworkError ELSE SetupError

\* C13: a failing method throws the stated normalized error (detail, else
\* JSON rendering of the body, else 'API Error: <status>', data and status
\* copied; the generic network / request-setup message without a response),
\* and logSession and getLoggedSessions throw the same error on the same
\* failure.
C13_UniformNormalization ==
    /\ norm.log # NotThrown => norm.log = C13_Stated(norm.failure)
    /\ norm.get # NotThrown => norm.get = C13_Stated(norm.failure)
    /\ norm.log # NotThrown /\ norm.get # NotThrown => norm.log = norm.get

\* C14: on exchange success the new token is stored and set as default
\* first, then the queue is resolved with it, then the trigger is replayed,
\* then the flag goes down; no request is resolved or replayed while the
\* store still holds the old access token.
C14_SuccessOrder ==
    /\ \A q \in Req :
          status[q] \in {"resolving", "replaying"}
              => /\ handler.pc # 0
                 /\ accessToken = handler.tok
                 /\ defaultAuth = handler.tok
    /\ \A q \in Req : status[q] = "resolving" => handler.val = handler.tok
    /\ handler.pc # 0 /\ status[handler.req] = "replaying"
          => /\ failedQueue = << >>
             /\ \A q \in Req : status[q] # "queued"
    /\ handler.pc # 0 /\ ~isRefreshing => status[handler.req] = "replaying"

C14_Witness ==
    /\ handler.pc # 0
    /\ \E q \in Req : status[q] = "resolving"
    /\ status[handler.req] = "refreshing"
    /\ isRefreshing
    /\ accessToken = handler.tok
    /\ accessToken # LoginToken

====
